---- MODULE Spec2Model ----
(***************************************************************************)
(* A model of the weather / document tool server (src/app.py) and of the   *)
(* agent client loop (src/mcp_client.py).                                  *)
(*                                                                         *)
(* Text is modelled as a sequence of one-character strings, so that        *)
(* parsing, case mapping and suffix tests are computed character by        *)
(* character, as the Python code computes them.                            *)
(*                                                                         *)
(* The module holds four specifications over one set of variables:         *)
(*   SpecWeather   the three weather tools and make_weather_request        *)
(*   SpecFilename  get_report_filename as a function, applied twice        *)
(*   SpecDocs      sequences of document-generation calls on a file system *)
(*   SpecAgent     run_mcp_agent: start-up and the conversation loop       *)
(* Each specification leaves the variables of the others at their initial  *)
(* value.                                                                  *)
(***************************************************************************)
EXTENDS Integers, Sequences, FiniteSets, TLC

VARIABLES
    \* ---- weather tools (src/app.py 21-120)
    env_token,   \* value of the WEATHER_API_TOKEN environment variable, or "UNSET"
    wpc,         \* "idle" | "awaiting" (client.get in flight) | "done"
    call,        \* the tool invocation being served
    sent,        \* outbound HTTP requests issued during this invocation
    response,    \* what client.get produced, once it has answered
    outcome,     \* how the invocation ended
    \* ---- get_report_filename (src/app.py 127-135)
    fpc,         \* "start" | "once" | "twice"
    file_name,   \* the file_name argument (None, or text)
    extension,   \* the extension argument
    name1,       \* get_report_filename(file_name, extension)
    name2,       \* get_report_filename(name1, extension)
    \* ---- document tools (src/app.py 139-255)
    now,         \* the wall clock: seconds since 2025-01-01 00:00:00
    ticks,       \* seconds the clock has advanced since the start
    fs,          \* the working directory: path -> bytes
    writes,      \* the path each successful write went to, in call order
    last,        \* the last document call: arguments, path, result
    \* ---- agent client (src/mcp_client.py 20-102)
    pc,          \* "Start" | "Connecting" | "Idle" | "Thinking" | "Terminated"
    user_input,  \* the line last read
    reads,       \* every line read, in order
    invoked,     \* indexes (into reads) of the lines handed to the agent
    inflight,    \* agent invocations started and not yet returned
    events,      \* "invoke" / "reply" / "failed", in order
    exitCause    \* why the session ended

vars == <<env_token, wpc, call, sent, response, outcome,
          fpc, file_name, extension, name1, name2,
          now, ticks, fs, writes, last,
          pc, user_input, reads, invoked, inflight, events, exitCause>>

weatherVars  == <<env_token, wpc, call, sent, response, outcome>>
filenameVars == <<fpc, file_name, extension, name1, name2>>
clockVars    == <<now, ticks>>
docVars      == <<fs, writes, last>>
agentVars    == <<pc, user_input, reads, invoked, inflight, events, exitCause>>

\* Python's None where a text is expected: a text that is no text, so that a
\* variable holds values of one shape throughout
None == <<"None">>

(***************************************************************************)
(* Text helpers                                                            *)
(***************************************************************************)
DigitChars == <<"0", "1", "2", "3", "4", "5", "6", "7", "8", "9">>

IsDigit(c) == \E i \in 1..10 : DigitChars[i] = c

DigitVal(c) == (CHOOSE i \in 1..10 : DigitChars[i] = c) - 1

NonZeroDigit(c) == IsDigit(c) /\ c # "0"

\* every text over alphabet A of length 0..n
TextsUpTo(A, n) == UNION {[1..k -> A] : k \in 0..n}

\* int(): decimal value of a text of digits, leading blanks skipped
RECURSIVE StrToInt(_)
StrToInt(s) ==
    IF s = <<>> THEN 0
    ELSE IF s[Len(s)] = " " THEN StrToInt(SubSeq(s, 1, Len(s) - 1))
    ELSE 10 * StrToInt(SubSeq(s, 1, Len(s) - 1)) + DigitVal(s[Len(s)])

(***************************************************************************)
(* Weather tools                                                           *)
(***************************************************************************)
\* the literal assigned at src/app.py 23 (the environment lookup is commented out)
API_KEY == "HARDCODED_TOKEN"

PLACEHOLDER == "YOUR_API_TOKEN"

BASE_URL == "http://api.weatherapi.com/v1"

Queries == {"London", "30.3,-97.7"}

\* ---- datetime.strptime(dt, '%Y-%m-%d')
\* The format compiles to
\*   (?P<Y>\d\d\d\d)-(?P<m>1[0-2]|0[1-9]|[1-9])-(?P<d>3[0-1]|[1-2]\d|0[1-9]|[1-9]| [1-9])
\* matched at the start of the text; the alternatives are tried in order.
\* Lengths of the month alternatives that match at position i, in order.
MonthAlts(s, i) ==
    (IF i + 1 <= Len(s) /\ s[i] = "1" /\ s[i + 1] \in {"0", "1", "2"}
        THEN <<2>> ELSE <<>>)
    \o (IF i + 1 <= Len(s) /\ s[i] = "0" /\ NonZeroDigit(s[i + 1])
        THEN <<2>> ELSE <<>>)
    \o (IF i <= Len(s) /\ NonZeroDigit(s[i]) THEN <<1>> ELSE <<>>)

\* Lengths of the day alternatives that match at position i, in order.
DayAlts(s, i) ==
    (IF i + 1 <= Len(s) /\ s[i] = "3" /\ s[i + 1] \in {"0", "1"}
        THEN <<2>> ELSE <<>>)
    \o (IF i + 1 <= Len(s) /\ s[i] \in {"1", "2"} /\ IsDigit(s[i + 1])
        THEN <<2>> ELSE <<>>)
    \o (IF i + 1 <= Len(s) /\ s[i] = "0" /\ NonZeroDigit(s[i + 1])
        THEN <<2>> ELSE <<>>)
    \o (IF i <= Len(s) /\ NonZeroDigit(s[i]) THEN <<1>> ELSE <<>>)
    \o (IF i + 1 <= Len(s) /\ s[i] = " " /\ NonZeroDigit(s[i + 1])
        THEN <<2>> ELSE <<>>)

IsLeap(y) == (y % 4 = 0) /\ ((y % 100 # 0) \/ (y % 400 = 0))

DaysInMonth(y, m) ==
    IF m = 2 THEN (IF IsLeap(y) THEN 29 ELSE 28)
    ELSE IF m \in {4, 6, 9, 11} THEN 30 ELSE 31

\* TRUE when strptime returns, FALSE when it raises ValueError
strptime(s) ==
    LET yearOk == Len(s) >= 5 /\ (\A k \in 1..4 : IsDigit(s[k])) /\ s[5] = "-"
        MonthFits(n) == 6 + n <= Len(s) /\ s[6 + n] = "-"
                        /\ DayAlts(s, 6 + n + 1) # <<>>
        months == IF yearOk THEN SelectSeq(MonthAlts(s, 6), MonthFits) ELSE <<>>
    IN  /\ months # <<>>
        /\ LET mlen  == months[1]
               dpos  == 6 + mlen + 1
               dlen  == DayAlts(s, dpos)[1]
               year  == StrToInt(SubSeq(s, 1, 4))
               month == StrToInt(SubSeq(s, 6, 5 + mlen))
               day   == StrToInt(SubSeq(s, dpos, dpos + dlen - 1))
           IN  /\ dpos + dlen - 1 = Len(s)      \* else "unconverted data remains"
               /\ year >= 1                     \* else "year 0 is out of range"
               /\ day <= DaysInMonth(year, month) \* else "day is out of range for month"

\* ---- the upstream's possible answers to client.get
StatusCodes == {200, 204, 301, 404, 500}

\* body kinds: what response.json() and the 'error' test do with them
\*   "object"        a JSON object without an 'error' member
\*   "error_object"  a JSON object whose 'error' member is an object with 'message'
\*   "error_string"  a JSON object whose 'error' member is a string
\*   "number"        a JSON number ('error' in data raises TypeError)
\*   "list"          a JSON array not holding the string 'error'
\*   "not_json"      not JSON (response.json() raises JSONDecodeError)
BodyKinds == {"object", "error_object", "error_string", "number", "list", "not_json"}

\* a 2xx answer with any body, another status with two of them, or no answer
Responses ==
    { r \in [kind : {"response"}, status : StatusCodes, body : BodyKinds] :
        r.status \in 200..299 \/ r.body \in {"object", "not_json"} }
    \cup [kind : {"ConnectError", "ReadTimeout"}, status : {0}, body : {"none"}]

\* response.json(): the parsed body (a body is named by its kind throughout)
Json(resp) == resp.body

\* how an invocation ends: a value returned, ToolError raised, or another
\* exception escaping
NoOutcome == [kind |-> "none", reason |-> "none", data |-> "none"]

ToolError(reason) == [kind |-> "ToolError", reason |-> reason, data |-> "none"]

Returned(data) == [kind |-> "return", reason |-> "none", data |-> data]

Escaped(exc) == [kind |-> exc, reason |-> "uncaught", data |-> "none"]

NoResponse == [kind |-> "none", status |-> 0, body |-> "none"]

\* the exception the try body of make_weather_request raises for a response,
\* or "none" when it reaches `return data`
RaisedInTry(resp) ==
    IF resp.kind # "response" THEN resp.kind
    ELSE IF ~(resp.status >= 200 /\ resp.status <= 299) THEN "HTTPStatusError"
    ELSE IF resp.body = "not_json" THEN "JSONDecodeError"
    ELSE IF resp.body = "number" THEN "TypeError"
    ELSE IF resp.body = "error_object" THEN "ToolError"
    ELSE IF resp.body = "error_string" THEN "TypeError"
    ELSE "none"

\* isinstance(exc, cls) for the classes the handlers name
IsInstance(exc, cls) ==
    \/ exc = cls
    \/ cls = "RequestError" /\ exc \in {"ConnectError", "ReadTimeout"}
    \/ cls = "Exception"

\* the except clauses of make_weather_request, in source order
HandlersDroppingCatchAll ==
    << <<"HTTPStatusError", "UpstreamHTTPError">>,
       <<"RequestError", "NetworkError">>,
       <<"ToolError", "UpstreamLogicalError">> >>

Handlers ==
    << <<"HTTPStatusError", "UpstreamHTTPError">>,
       <<"RequestError", "NetworkError">>,
       <<"ToolError", "UpstreamLogicalError">>,
       <<"Exception", "UnexpectedError">> >>

\* how the invocation ends once client.get has answered
Complete(resp) ==
    LET exc == RaisedInTry(resp)
        hit == SelectSeq(Handlers, LAMBDA h : IsInstance(exc, h[1]))
    IN  IF exc = "none" THEN Returned(Json(resp))
        ELSE IF hit = <<>> THEN Escaped(exc)
        ELSE ToolError(hit[1][2])

NoCall == [tool |-> "none", q |-> "", days |-> 0, dt |-> <<>>]

\* make_weather_request up to the await of client.get
MakeWeatherRequest(endpoint, params) ==
    IF API_KEY = PLACEHOLDER
    THEN /\ sent' = sent
         /\ wpc' = "done"
         /\ outcome' = ToolError("ConfigurationError")
    ELSE /\ sent' = Append(sent, [url |-> <<BASE_URL, endpoint>>,
                                   params |-> [key |-> API_KEY] @@ params])
         /\ wpc' = "awaiting"
         /\ outcome' = NoOutcome

get_current_weather(q) ==
    /\ wpc = "idle"
    /\ call' = [NoCall EXCEPT !.tool = "current", !.q = q]
    /\ MakeWeatherRequest("current", [q |-> q])
    /\ UNCHANGED <<env_token, response>>

\* the values the tool schema admits for `days` (the Literal of src/app.py 87);
\* the server validates the arguments against it before the function body runs
DaysAnyInt == Int

DaysLiteral == 1..14

DaysSlack == 2

DaysInputs == (0 - DaysSlack)..(14 + DaysSlack)

get_forecast_weather(q, days) ==
    /\ wpc = "idle"
    /\ call' = [NoCall EXCEPT !.tool = "forecast", !.q = q, !.days = days]
    /\ IF days \notin DaysLiteral
       THEN /\ sent' = sent
            /\ wpc' = "done"
            /\ outcome' = ToolError("ValidationError")
       ELSE \* int(days) of an integer is that integer
            MakeWeatherRequest("forecast", [q |-> q, days |-> days])
    /\ UNCHANGED <<env_token, response>>

get_history_weather(q, dt) ==
    /\ wpc = "idle"
    /\ call' = [NoCall EXCEPT !.tool = "history", !.q = q, !.dt = dt]
    /\ IF ~strptime(dt)
       THEN /\ sent' = sent
            /\ wpc' = "done"
            /\ outcome' = ToolError("ValidationError")
       ELSE MakeWeatherRequest("history", [q |-> q, dt |-> dt])
    /\ UNCHANGED <<env_token, response>>

\* client.get answers (or fails), and make_weather_request runs to its end
UpstreamResponds(resp) ==
    /\ wpc = "awaiting"
    /\ response' = resp
    /\ outcome' = Complete(resp)
    /\ wpc' = "done"
    /\ UNCHANGED <<env_token, call, sent>>

\* the result crosses the protocol boundary; the server awaits the next call
ToolReturns ==
    /\ wpc = "done"
    /\ wpc' = "idle"
    /\ call' = NoCall
    /\ sent' = <<>>
    /\ response' = NoResponse
    /\ outcome' = NoOutcome
    /\ UNCHANGED env_token

\* ---- the dt texts tried: <year>-<month><sep><day>, fields of bounded length
MaxFieldLen == 2

YearFields == { <<"2", "0", "2", "4">>, <<"2", "0", "2", "5">>,
                <<"0", "0", "0", "0">>, <<"2", "0", "2">> }

MonthChars == {"0", "1", "2"}

DayChars == {"0", "2", "3", "9", " "}

DtInputs ==
    { y \o <<"-">> \o m \o <<sep>> \o d :
        y \in YearFields, m \in TextsUpTo(MonthChars, MaxFieldLen),
        sep \in {"-", "/"}, d \in TextsUpTo(DayChars, MaxFieldLen) }

NoDoc == [n |-> 0, tool |-> "none", content |-> <<>>, file_name |-> None,
          path |-> None, result |-> <<>>, error |-> "none"]

WeatherParked ==
    /\ env_token = "UNSET"
    /\ wpc = "idle"
    /\ call = NoCall
    /\ sent = <<>>
    /\ response = NoResponse
    /\ outcome = NoOutcome

FilenameParked ==
    /\ fpc = "start"
    /\ file_name = None
    /\ extension = <<>>
    /\ name1 = None
    /\ name2 = None

DocsParked ==
    /\ now = 0
    /\ ticks = 0
    /\ fs = <<>>
    /\ writes = <<>>
    /\ last = NoDoc

AgentParked ==
    /\ pc = "Start"
    /\ user_input = None
    /\ reads = <<>>
    /\ invoked = {}
    /\ inflight = 0
    /\ events = <<>>
    /\ exitCause = "none"

InitWeather ==
    /\ env_token \in {"UNSET", PLACEHOLDER, "token-from-env"}
    /\ wpc = "idle"
    /\ call = NoCall
    /\ sent = <<>>
    /\ response = NoResponse
    /\ outcome = NoOutcome
    /\ FilenameParked /\ DocsParked /\ AgentParked

\* a client calls one of the three tools; the server serves one call at a time
CurrentCalled ==
    /\ wpc = "idle"
    /\ \E q \in Queries : get_current_weather(q)
    /\ UNCHANGED <<filenameVars, clockVars, docVars, agentVars>>

ForecastCalled ==
    /\ wpc = "idle"
    /\ \E q \in Queries, days \in DaysInputs : get_forecast_weather(q, days)
    /\ UNCHANGED <<filenameVars, clockVars, docVars, agentVars>>

HistoryCalled ==
    /\ wpc = "idle"
    /\ \E q \in Queries, dt \in DtInputs : get_history_weather(q, dt)
    /\ UNCHANGED <<filenameVars, clockVars, docVars, agentVars>>

UpstreamAnswered ==
    /\ wpc = "awaiting"
    /\ \E resp \in Responses : UpstreamResponds(resp)
    /\ UNCHANGED <<filenameVars, clockVars, docVars, agentVars>>

ToolReturned ==
    /\ ToolReturns
    /\ UNCHANGED <<filenameVars, clockVars, docVars, agentVars>>

NextWeather ==
    \/ CurrentCalled
    \/ ForecastCalled
    \/ HistoryCalled
    \/ UpstreamAnswered
    \/ ToolReturned

SpecWeather == InitWeather /\ [][NextWeather]_vars

(***************************************************************************)
(* Claims about the weather tools                                          *)
(***************************************************************************)
\* YYYY-MM-DD: four digits, '-', two digits, '-', two digits
MatchesPattern(s) ==
    /\ Len(s) = 10
    /\ \A k \in {1, 2, 3, 4, 6, 7, 9, 10} : IsDigit(s[k])
    /\ s[5] = "-" /\ s[8] = "-"

\* C1: every get_history_weather call whose dt does not match YYYY-MM-DD ends
\* in a validation error, and issues no HTTP request.
C1_NonPatternDateRejected ==
    (call.tool = "history" /\ ~MatchesPattern(call.dt))
        => /\ sent = <<>>
           /\ wpc = "done"
           /\ outcome = ToolError("ValidationError")

ValidArgs ==
    \/ call.tool = "current"
    \/ call.tool = "forecast" /\ call.days \in 1..14
    \/ call.tool = "history" /\ MatchesPattern(call.dt) /\ strptime(call.dt)

\* C3: with the credential unset or the placeholder, every weather call with
\* valid arguments ends in a configuration error and issues no HTTP request.
C3_NoCredentialNoRequest ==
    (env_token \in {"UNSET", PLACEHOLDER} /\ ValidArgs)
        => /\ sent = <<>>
           /\ wpc = "done"
           /\ outcome = ToolError("ConfigurationError")

\* the upstream answered 2xx with a body that parses and has no 'error' entry
GoodAnswer(resp) ==
    /\ resp.kind = "response"
    /\ resp.status \in 200..299
    /\ resp.body \in {"object", "list"}

\* C9: a finished make_weather_request has either returned the parsed body,
\* unchanged, after a 2xx answer without an 'error' entry, or raised ToolError;
\* every other answer (non-2xx, connection failure, timeout, embedded error,
\* anything else) raises ToolError and nothing else escapes.
C9_ReturnOrToolError ==
    (wpc = "done" /\ sent # <<>>) =>
        IF GoodAnswer(response)
        THEN outcome = Returned(response.body)
        ELSE outcome.kind = "ToolError"

C9_Witness ==
    /\ wpc = "done" /\ sent # <<>>
    /\ response.kind = "response" /\ response.status = 200
    /\ response.body = "not_json"
    /\ outcome = ToolError("UnexpectedError")

(***************************************************************************)
(* get_report_filename                                                     *)
(***************************************************************************)
UpperChars == <<"A", "B", "C", "D", "E", "F", "G", "H", "I", "J", "K", "L", "M",
                "N", "O", "P", "Q", "R", "S", "T", "U", "V", "W", "X", "Y", "Z">>

LowerChars == <<"a", "b", "c", "d", "e", "f", "g", "h", "i", "j", "k", "l", "m",
                "n", "o", "p", "q", "r", "s", "t", "u", "v", "w", "x", "y", "z">>

\* str.lower(), character by character
LowerChar(c) ==
    IF \E i \in 1..26 : UpperChars[i] = c
    THEN LowerChars[CHOOSE i \in 1..26 : UpperChars[i] = c]
    ELSE c

lower(s) == [i \in 1..Len(s) |-> LowerChar(s[i])]

Whitespace == {" ", "\t", "\n"}

\* str.strip(): leading and trailing whitespace removed
RECURSIVE lstrip(_)
lstrip(s) ==
    IF s # <<>> /\ s[1] \in Whitespace THEN lstrip(Tail(s)) ELSE s

RECURSIVE rstrip(_)
rstrip(s) ==
    IF s # <<>> /\ s[Len(s)] \in Whitespace
    THEN rstrip(SubSeq(s, 1, Len(s) - 1)) ELSE s

strip(s) == rstrip(lstrip(s))

\* str.endswith()
endswith(s, suffix) ==
    /\ Len(suffix) <= Len(s)
    /\ SubSeq(s, Len(s) - Len(suffix) + 1, Len(s)) = suffix

\* decimal digits of n, zero-padded to at least w characters (%02d, %04d)
RECURSIVE Digits(_)
Digits(n) ==
    IF n < 10 THEN <<DigitChars[n + 1]>>
    ELSE Digits(n \div 10) \o <<DigitChars[(n % 10) + 1]>>

RECURSIVE ZeroPad(_, _)
ZeroPad(s, w) == IF Len(s) >= w THEN s ELSE ZeroPad(<<"0">> \o s, w)

\* month and day of the n-th day (from 0) of ClockYear, counting from month m
ClockYear == 2025

RECURSIVE MonthDay(_, _)
MonthDay(n, m) ==
    IF n < DaysInMonth(ClockYear, m) THEN <<m, n + 1>>
    ELSE MonthDay(n - DaysInMonth(ClockYear, m), m + 1)

\* datetime.now() as [year, month, day, hour, minute, second]
DateTimeNow ==
    LET md == MonthDay(now \div 86400, 1)
        sod == now % 86400
    IN  [year |-> ClockYear, month |-> md[1], day |-> md[2],
         hour |-> sod \div 3600, minute |-> (sod % 3600) \div 60,
         second |-> sod % 60]

\* strftime("%Y%m%d_%H%M%S")
CompactTimestamp(t) ==
    ZeroPad(Digits(t.year), 4) \o ZeroPad(Digits(t.month), 2)
    \o ZeroPad(Digits(t.day), 2) \o <<"_">>
    \o ZeroPad(Digits(t.hour), 2) \o ZeroPad(Digits(t.minute), 2)
    \o ZeroPad(Digits(t.second), 2)

ReportPrefix == <<"r", "e", "p", "o", "r", "t", "_">>

\* the function without the .lower() of src/app.py 133
get_report_filename_cased(fn, ext) ==
    IF fn = None \/ strip(fn) = <<>>
    THEN ReportPrefix \o CompactTimestamp(DateTimeNow) \o <<".">> \o ext
    ELSE IF ~endswith(fn, <<".">> \o ext) THEN fn \o <<".">> \o ext
    ELSE fn

get_report_filename(fn, ext) ==
    IF fn = None \/ strip(fn) = <<>>
    THEN ReportPrefix \o CompactTimestamp(DateTimeNow) \o <<".">> \o ext
    ELSE IF ~endswith(lower(fn), <<".">> \o ext) THEN fn \o <<".">> \o ext
    ELSE fn

\* the extensions the four generators pass (src/app.py 159, 186, 208, 249)
Extensions == { <<"p", "d", "f">>, <<"d", "o", "c", "x">>, <<"p", "n", "g">>,
                <<"m", "d">> }

\* ---- the file names tried: every text over NameChars up to MaxNameLen,
\* some sample names, and None
MaxNameLen == 4

NameChars == {" ", ".", "m", "d", "D"}

SampleNames == { <<"f", "o", "o">>,
                 <<"f", "o", "o", ".", "p", "d", "f">>,
                 <<"F", "O", "O", ".", "P", "D", "F">>,
                 <<"f", "o", "o", ".", "P", "n", "G">>,
                 <<"f", "o", "o", ".", "p", "d", "f", " ">>,
                 <<"\t", "\n">> }

FileNames == TextsUpTo(NameChars, MaxNameLen) \cup SampleNames \cup {None}

\* instants at which a run may start: just before the minute, the day and the
\* month roll over
ClockStarts == {59, 86399, 31 * 86400 - 1}

MaxTicks == 1

\* a second passes
Tick ==
    /\ ticks < MaxTicks
    /\ now' = now + 1
    /\ ticks' = ticks + 1

\* the first application
ApplyOnce ==
    /\ fpc = "start"
    /\ name1' = get_report_filename(file_name, extension)
    /\ fpc' = "once"
    /\ UNCHANGED <<file_name, extension, name2>>
    /\ UNCHANGED <<weatherVars, clockVars, docVars, agentVars>>

\* the function applied to its own result
ApplyAgain ==
    /\ fpc = "once"
    /\ name2' = get_report_filename(name1, extension)
    /\ fpc' = "twice"
    /\ UNCHANGED <<file_name, extension, name1>>
    /\ UNCHANGED <<weatherVars, clockVars, docVars, agentVars>>

FilenameTick ==
    /\ Tick
    /\ UNCHANGED <<weatherVars, filenameVars, docVars, agentVars>>

InitFilename ==
    /\ fpc = "start"
    /\ file_name \in FileNames
    /\ extension \in Extensions
    /\ name1 = None
    /\ name2 = None
    /\ now \in ClockStarts
    /\ ticks = 0
    /\ fs = <<>> /\ writes = <<>> /\ last = NoDoc
    /\ WeatherParked /\ AgentParked

NextFilename ==
    \/ ApplyOnce
    \/ ApplyAgain
    \/ FilenameTick

SpecFilename == InitFilename /\ [][NextFilename]_vars

(***************************************************************************)
(* Claims about get_report_filename                                        *)
(***************************************************************************)
UpperChar(c) ==
    IF \E i \in 1..26 : LowerChars[i] = c
    THEN UpperChars[CHOOSE i \in 1..26 : LowerChars[i] = c]
    ELSE c

\* a and b are equal when case is ignored
SameIgnoringCase(a, b) ==
    Len(a) = Len(b) /\ \A i \in 1..Len(a) : UpperChar(a[i]) = UpperChar(b[i])

\* fn ends with '.' + ext, compared case-insensitively
EndsWithExtension(fn, ext) ==
    /\ Len(fn) >= Len(ext) + 1
    /\ SameIgnoringCase(SubSeq(fn, Len(fn) - Len(ext), Len(fn)), <<".">> \o ext)

\* report_<8 digits>_<6 digits>.<ext>
IsTimestampName(n, ext) ==
    /\ Len(n) = 23 + Len(ext)
    /\ SubSeq(n, 1, 7) = ReportPrefix
    /\ \A i \in 8..15 : IsDigit(n[i])
    /\ n[16] = "_"
    /\ \A i \in 17..22 : IsDigit(n[i])
    /\ n[23] = "."
    /\ SubSeq(n, 24, Len(n)) = ext

IsBlank(fn) == \A i \in 1..Len(fn) : fn[i] \in Whitespace

\* C4 as stated: unchanged when the name ends with the extension ignoring
\* case; extension appended to any other non-empty name; a timestamp name when
\* the name is absent or empty; and the result is a fixed point.
C4_AsStated ==
    /\ fpc # "start" =>
        /\ (file_name # None /\ EndsWithExtension(file_name, extension))
              => name1 = file_name
        /\ (file_name # None /\ file_name # <<>>
                /\ ~EndsWithExtension(file_name, extension))
              => name1 = file_name \o <<".">> \o extension
        /\ (file_name = None \/ file_name = <<>>)
              => IsTimestampName(name1, extension)
    /\ fpc = "twice" => name2 = name1

\* C4, amended: as stated, except that a name of whitespace only is treated as
\* absent: it gives a timestamp name, and the extension is appended only to a
\* name holding a non-whitespace character.
C4_Filename ==
    /\ fpc # "start" =>
        /\ (file_name # None /\ EndsWithExtension(file_name, extension))
              => name1 = file_name
        /\ (file_name # None /\ ~IsBlank(file_name)
                /\ ~EndsWithExtension(file_name, extension))
              => name1 = file_name \o <<".">> \o extension
        /\ (file_name = None \/ IsBlank(file_name))
              => IsTimestampName(name1, extension)
    /\ fpc = "twice" => name2 = name1

C4_Witness ==
    /\ fpc = "twice"
    /\ file_name = <<" ">>
    /\ IsTimestampName(name1, extension)
    /\ name2 = name1
    /\ ticks = 1

(***************************************************************************)
(* Document tools                                                          *)
(***************************************************************************)
\* the base64 alphabet
B64Chars == <<"A", "B", "C", "D", "E", "F", "G", "H", "I", "J", "K", "L", "M",
              "N", "O", "P", "Q", "R", "S", "T", "U", "V", "W", "X", "Y", "Z",
              "a", "b", "c", "d", "e", "f", "g", "h", "i", "j", "k", "l", "m",
              "n", "o", "p", "q", "r", "s", "t", "u", "v", "w", "x", "y", "z",
              "0", "1", "2", "3", "4", "5", "6", "7", "8", "9", "+", "/">>

B64(v) == B64Chars[v + 1]

\* base64.b64encode(bytes).decode('utf-8'): three bytes to four characters,
\* the last group padded with '='
RECURSIVE b64encode(_)
b64encode(b) ==
    IF b = <<>> THEN <<>>
    ELSE IF Len(b) = 1
    THEN <<B64(b[1] \div 4), B64((b[1] % 4) * 16), "=", "=">>
    ELSE IF Len(b) = 2
    THEN <<B64(b[1] \div 4), B64((b[1] % 4) * 16 + b[2] \div 16),
           B64((b[2] % 16) * 4), "=">>
    ELSE <<B64(b[1] \div 4), B64((b[1] % 4) * 16 + b[2] \div 16),
           B64((b[2] % 16) * 4 + b[3] \div 64), B64(b[3] % 64)>>
         \o b64encode(SubSeq(b, 4, Len(b)))

\* os.path.basename(): what follows the last '/'
RECURSIVE basename(_)
basename(path) ==
    IF \E i \in 1..Len(path) : path[i] = "/"
    THEN basename(Tail(path)) ELSE path

\* the file-content block, read back from the working directory as the call
\* leaves it
handle_file_result(file_path, mime_type) ==
    << [data |-> b64encode(fs'[file_path]), mime_type |-> mime_type,
        name |-> basename(file_path)] >>

\* ASCII codes of the digits of a text of digits
Ascii(s) == [i \in 1..Len(s) |-> 48 + DigitVal(s[i])]

\* "# Report Generated on %Y-%m-%d %H:%M:%S\n\n", encoded
MdHeading(t) ==
    <<35, 32, 82, 101, 112, 111, 114, 116, 32, 71, 101, 110, 101, 114, 97, 116,
      101, 100, 32, 111, 110, 32>>
    \o Ascii(ZeroPad(Digits(t.year), 4)) \o <<45>>
    \o Ascii(ZeroPad(Digits(t.month), 2)) \o <<45>>
    \o Ascii(ZeroPad(Digits(t.day), 2)) \o <<32>>
    \o Ascii(ZeroPad(Digits(t.hour), 2)) \o <<58>>
    \o Ascii(ZeroPad(Digits(t.minute), 2)) \o <<58>>
    \o Ascii(ZeroPad(Digits(t.second), 2)) \o <<10, 10>>

\* what each renderer leaves in the file.  The PDF, DOCX and PNG libraries are
\* opaque: their output is modelled as the format's signature bytes followed
\* by the content.
Rendered(tool, content) ==
    IF tool = "pdf" THEN <<37, 80, 68, 70>> \o content
    ELSE IF tool = "docx" THEN <<80, 75, 3, 4>> \o content
    ELSE IF tool = "png" THEN <<137, 80, 78, 71>> \o content
    ELSE MdHeading(DateTimeNow) \o content

ExtensionOf(tool) ==
    IF tool = "pdf" THEN <<"p", "d", "f">>
    ELSE IF tool = "docx" THEN <<"d", "o", "c", "x">>
    ELSE IF tool = "png" THEN <<"p", "n", "g">>
    ELSE <<"m", "d">>

MimeOf(tool) ==
    IF tool = "pdf" THEN "application/pdf"
    ELSE IF tool = "docx"
    THEN "application/vnd.openxmlformats-officedocument.wordprocessingml.document"
    ELSE IF tool = "png" THEN "image/png"
    ELSE "text/markdown"

\* the file at path holds bytes; every other file is as it was
WriteFile(path, bytes) ==
    fs' = [p \in DOMAIN fs \cup {path} |-> IF p = path THEN bytes ELSE fs[p]]

\* the body shared by the four generators: name the file, render, write, read
\* back.  A renderer that raises writes nothing; error is what the caller sees.
Generate(tool, content, fn, renders, error) ==
    /\ LET file_path == get_report_filename(fn, ExtensionOf(tool))
       IN  IF renders
           THEN /\ WriteFile(file_path, Rendered(tool, content))
                /\ writes' = Append(writes, file_path)
                /\ last' = [n |-> last.n + 1, tool |-> tool, content |-> content,
                            file_name |-> fn, path |-> file_path,
                            result |-> handle_file_result(file_path, MimeOf(tool)),
                            error |-> "none"]
           ELSE /\ fs' = fs
                /\ writes' = writes
                /\ last' = [n |-> last.n + 1, tool |-> tool, content |-> content,
                            file_name |-> fn, path |-> file_path,
                            result |-> <<>>, error |-> error]
    /\ UNCHANGED <<weatherVars, filenameVars, clockVars, agentVars>>

generate_pdf_report(content, fn, renders) ==
    Generate("pdf", content, fn, renders, "FPDFException")

generate_docx_report(content, fn, renders) ==
    Generate("docx", content, fn, renders, "OSError")

\* the only generator that catches: any failure is re-raised as ToolError
generate_png_image(content, fn, renders) ==
    Generate("png", content, fn, renders, "ToolError")

\* a generator writing to one fixed path whatever its file_name
generate_md_report_fixed(content, fn, renders) ==
    /\ WriteFile(<<"r", ".", "m", "d">>, Rendered("md", content))
    /\ writes' = Append(writes, <<"r", ".", "m", "d">>)
    /\ last' = [n |-> last.n + 1, tool |-> "md", content |-> content,
                file_name |-> fn, path |-> <<"r", ".", "m", "d">>,
                result |-> handle_file_result(<<"r", ".", "m", "d">>, MimeOf("md")),
                error |-> "none"]
    /\ UNCHANGED <<weatherVars, filenameVars, clockVars, agentVars>>

generate_md_report(content, fn, renders) ==
    Generate("md", content, fn, renders, "OSError")

\* ---- the arguments tried, and the number of calls in a run
MaxCalls == 2

Contents == { <<72, 105>>, <<255>> }

DocNames == { None, <<"a", ".", "M", "D">> }

PdfCalled ==
    /\ last.n < MaxCalls
    /\ \E c \in Contents, fn \in DocNames, r \in BOOLEAN : generate_pdf_report(c, fn, r)

DocxCalled ==
    /\ last.n < MaxCalls
    /\ \E c \in Contents, fn \in DocNames, r \in BOOLEAN : generate_docx_report(c, fn, r)

PngCalled ==
    /\ last.n < MaxCalls
    /\ \E c \in Contents, fn \in DocNames, r \in BOOLEAN : generate_png_image(c, fn, r)

MdCalled ==
    /\ last.n < MaxCalls
    /\ \E c \in Contents, fn \in DocNames, r \in BOOLEAN : generate_md_report(c, fn, r)

DocsTick ==
    /\ Tick
    /\ UNCHANGED <<weatherVars, filenameVars, docVars, agentVars>>

InitDocs ==
    /\ now = 59
    /\ ticks = 0
    /\ fs = <<>>
    /\ writes = <<>>
    /\ last = NoDoc
    /\ WeatherParked /\ FilenameParked /\ AgentParked

NextDocs ==
    \/ PdfCalled
    \/ DocxCalled
    \/ PngCalled
    \/ MdCalled
    \/ DocsTick

SpecDocs == InitDocs /\ [][NextDocs]_vars

(***************************************************************************)
(* Claims about the document tools                                         *)
(***************************************************************************)
\* value of a base64 character
B64Val(c) == (CHOOSE i \in 1..64 : B64Chars[i] = c) - 1

\* base64 decoding: four characters to up to three bytes
RECURSIVE b64decode(_)
b64decode(t) ==
    IF t = <<>> THEN <<>>
    ELSE LET v1 == B64Val(t[1])
             v2 == B64Val(t[2])
             rest == b64decode(SubSeq(t, 5, Len(t)))
         IN  IF t[3] = "=" THEN <<v1 * 4 + v2 \div 16>>
             ELSE IF t[4] = "="
             THEN <<v1 * 4 + v2 \div 16, (v2 % 16) * 16 + B64Val(t[3]) \div 4>>
             ELSE <<v1 * 4 + v2 \div 16, (v2 % 16) * 16 + B64Val(t[3]) \div 4,
                    (B64Val(t[3]) % 4) * 64 + B64Val(t[4])>> \o rest

\* C10 as stated: no call writes to a path an earlier call of the sequence
\* wrote.
C10_AsStated ==
    \A i, j \in DOMAIN writes : i < j => writes[i] # writes[j]

\* C10, amended: a call that writes, writes exactly one path, the one
\* get_report_filename gives for its own file_name and format at that time;
\* every other file is left as it was; and the block it returns names that
\* path and decodes to the bytes the call itself has just written there.  (Two
\* calls that get the same name write the same path, the later over the
\* earlier.)
C10_OwnPathOnly ==
    [][ writes' # writes =>
          LET p == last'.path
          IN  /\ writes' = Append(writes, p)
              /\ p = get_report_filename(last'.file_name, ExtensionOf(last'.tool))
              /\ DOMAIN fs' = DOMAIN fs \cup {p}
              /\ \A q \in DOMAIN fs : q # p => fs'[q] = fs[q]
              /\ fs'[p] = Rendered(last'.tool, last'.content)
              /\ Len(last'.result) = 1
              /\ last'.result[1].name = p
              /\ last'.result[1].mime_type = MimeOf(last'.tool)
              /\ b64decode(last'.result[1].data) = fs'[p]
      ]_vars

\* two unnamed calls within one second: the second has overwritten the first
C10_Witness ==
    /\ Len(writes) = 2
    /\ writes[1] = writes[2]
    /\ last.file_name = None
    /\ IsTimestampName(last.path, ExtensionOf(last.tool))
    /\ b64decode(last.result[1].data) = fs[last.path]

(***************************************************************************)
(* Agent client: run_mcp_agent                                             *)
(***************************************************************************)
ExitWords == { <<"q", "u", "i", "t">>, <<"e", "x", "i", "t">> }

\* the test of src/mcp_client.py 88 without its .lower()
IsExitCommandCased(line) == line \in ExitWords

\* user_input.lower() in ["quit", "exit"]
IsExitCommand(line) == lower(line) \in ExitWords

\* AzureChatOpenAI(...) returns (src/mcp_client.py 26-38)
ModelInitialized ==
    /\ pc = "Start"
    /\ pc' = "Connecting"
    /\ UNCHANGED <<user_input, reads, invoked, inflight, events, exitCause>>
    /\ UNCHANGED <<weatherVars, filenameVars, clockVars, docVars>>

\* ... or raises: the function returns (src/mcp_client.py 39-41)
ModelInitFails ==
    /\ pc = "Start"
    /\ pc' = "Terminated"
    /\ exitCause' = "model_init_failed"
    /\ UNCHANGED <<user_input, reads, invoked, inflight, events>>
    /\ UNCHANGED <<weatherVars, filenameVars, clockVars, docVars>>

\* the session opens, the tools load, the test call and create_agent return
\* (src/mcp_client.py 55-85): the loop is entered
ToolsLoaded ==
    /\ pc = "Connecting"
    /\ pc' = "Idle"
    /\ UNCHANGED <<user_input, reads, invoked, inflight, events, exitCause>>
    /\ UNCHANGED <<weatherVars, filenameVars, clockVars, docVars>>

\* ... or one of them raises, caught by the outer handler (src/mcp_client.py 99-102)
SetupFails ==
    /\ pc = "Connecting"
    /\ pc' = "Terminated"
    /\ exitCause' = "setup_error"
    /\ UNCHANGED <<user_input, reads, invoked, inflight, events>>
    /\ UNCHANGED <<weatherVars, filenameVars, clockVars, docVars>>

\* the invocation started but not awaited
StartTurnNotAwaited ==
    /\ pc' = "Idle"
    /\ inflight' = inflight + 1
    /\ events' = Append(events, "invoke")

\* agent_executor.ainvoke(...) is started and awaited (src/mcp_client.py 92)
StartTurn ==
    /\ pc' = "Thinking"
    /\ inflight' = inflight + 1
    /\ events' = Append(events, "invoke")

\* one pass of the loop body from the read to the break or to the await, with
\* an empty line skipped
ReadInputSkippingEmpty(line) ==
    /\ pc = "Idle"
    /\ user_input' = line
    /\ reads' = Append(reads, line)
    /\ IF IsExitCommand(line)
       THEN /\ pc' = "Terminated"
            /\ exitCause' = "quit"
            /\ UNCHANGED <<invoked, inflight, events>>
       ELSE IF line = <<>>
       THEN UNCHANGED <<pc, exitCause, invoked, inflight, events>>
       ELSE /\ StartTurn
            /\ invoked' = invoked \cup {Len(reads) + 1}
            /\ UNCHANGED exitCause

\* one pass of the loop body from the read to the break or to the await
\* (src/mcp_client.py 87-92)
ReadInput(line) ==
    /\ pc = "Idle"
    /\ user_input' = line
    /\ reads' = Append(reads, line)
    /\ IF IsExitCommand(line)
       THEN /\ pc' = "Terminated"
            /\ exitCause' = "quit"
            /\ UNCHANGED <<invoked, inflight, events>>
       ELSE /\ StartTurn
            /\ invoked' = invoked \cup {Len(reads) + 1}
            /\ UNCHANGED exitCause

\* input() raises (EOFError at the end of the input): it is outside the inner
\* try, so the outer handler ends the session (src/mcp_client.py 87, 99-102)
ReadFails ==
    /\ pc = "Idle"
    /\ pc' = "Terminated"
    /\ exitCause' = "input_error"
    /\ UNCHANGED <<user_input, reads, invoked, inflight, events>>
    /\ UNCHANGED <<weatherVars, filenameVars, clockVars, docVars>>

\* ainvoke returns; the reply is printed (src/mcp_client.py 92-95)
AgentReplies ==
    /\ pc = "Thinking" /\ inflight > 0
    /\ inflight' = inflight - 1
    /\ events' = Append(events, "reply")
    /\ pc' = "Idle"
    /\ UNCHANGED <<user_input, reads, invoked, exitCause>>
    /\ UNCHANGED <<weatherVars, filenameVars, clockVars, docVars>>

\* a failing turn without the inner try/except: the outer handler gets it
TurnFailureEscapes ==
    /\ inflight' = inflight - 1
    /\ events' = Append(events, "failed")
    /\ pc' = "Terminated"
    /\ exitCause' = "setup_error"
    /\ UNCHANGED <<user_input, reads, invoked>>

\* the inner handler: print, and go round the loop (src/mcp_client.py 96-98)
TurnFailureCaught ==
    /\ inflight' = inflight - 1
    /\ events' = Append(events, "failed")
    /\ pc' = "Idle"
    /\ UNCHANGED <<user_input, reads, invoked, exitCause>>

\* ainvoke raises (a tool error, a model error)
AgentFails ==
    /\ pc = "Thinking" /\ inflight > 0
    /\ TurnFailureCaught
    /\ UNCHANGED <<weatherVars, filenameVars, clockVars, docVars>>

\* ---- the lines typed: every text over LineChars up to MaxLineLen, and some
\* sample lines; at most MaxTurns lines are read in a run
MaxLineLen == 1

MaxTurns == 2

LineChars == {"q", " "}

SampleLines == { <<"q", "u", "i", "t">>, <<"Q", "U", "I", "T">>,
                 <<"E", "x", "i", "t">>, <<"e", "x", "i", "t">>,
                 <<" ", "q", "u", "i", "t">>, <<"h", "i">> }

Lines == TextsUpTo(LineChars, MaxLineLen) \cup SampleLines

LineRead ==
    /\ pc = "Idle"
    /\ Len(reads) < MaxTurns
    /\ \E line \in Lines : ReadInput(line)
    /\ UNCHANGED <<weatherVars, filenameVars, clockVars, docVars>>

InitAgent ==
    /\ pc = "Start"
    /\ user_input = None
    /\ reads = <<>>
    /\ invoked = {}
    /\ inflight = 0
    /\ events = <<>>
    /\ exitCause = "none"
    /\ WeatherParked /\ FilenameParked /\ DocsParked

NextAgent ==
    \/ ModelInitialized
    \/ ModelInitFails
    \/ ToolsLoaded
    \/ SetupFails
    \/ LineRead
    \/ ReadFails
    \/ AgentReplies
    \/ AgentFails

SpecAgent == InitAgent /\ [][NextAgent]_vars

(***************************************************************************)
(* Claims about the agent loop                                             *)
(***************************************************************************)
\* the line is 'quit' or 'exit' when case is ignored
IsQuitWord(line) == \E w \in ExitWords : SameIgnoringCase(line, w)

\* C5: a line that is 'quit' or 'exit' ignoring case ends the session and is
\* not handed to the agent; once Terminated, nothing more is read and no turn
\* starts.
C5_QuitTerminates ==
    /\ [](\A i \in DOMAIN reads :
            IsQuitWord(reads[i])
                => pc = "Terminated" /\ i = Len(reads) /\ i \notin invoked)
    /\ [][ pc = "Terminated" =>
             /\ pc' = "Terminated"
             /\ reads' = reads /\ invoked' = invoked /\ events' = events ]_vars

C5_Witness ==
    /\ pc = "Terminated"
    /\ Len(reads) = 2
    /\ reads[2] = <<"Q", "U", "I", "T">>
    /\ invoked = {1}
    /\ inflight = 0

\* C6 as stated: a failed turn is caught and the loop is Idle again; a session
\* in which a turn failed reaches Terminated only through 'quit' / 'exit'.
C6_AsStated ==
    /\ (events # <<>> /\ events[Len(events)] = "failed") => pc # "Thinking"
    /\ (pc = "Terminated" /\ \E i \in DOMAIN events : events[i] = "failed")
          => (reads # <<>> /\ IsQuitWord(reads[Len(reads)]))

\* C6, amended: a failed turn is caught and the loop is Idle again, with
\* nothing else changed; no turn, failed or not, ends the session; the loop
\* ends only at a read: on 'quit' / 'exit', or when reading the line itself
\* fails (end of input).
C6_TurnFailureCaught ==
    [][ /\ (pc = "Thinking" /\ events' = Append(events, "failed"))
              => (pc' = "Idle" /\ reads' = reads /\ exitCause' = exitCause)
        /\ pc = "Thinking" => pc' \in {"Thinking", "Idle"}
        /\ (pc = "Idle" /\ pc' = "Terminated")
              => \/ /\ exitCause' = "quit"
                    /\ reads' # reads
                    /\ IsQuitWord(reads'[Len(reads')])
                 \/ /\ exitCause' = "input_error"
                    /\ reads' = reads
      ]_vars

C6_Witness ==
    /\ pc = "Terminated"
    /\ events = <<"invoke", "failed">>
    /\ exitCause = "input_error"
    /\ ~IsQuitWord(reads[Len(reads)])

\* C7: at most one agent invocation is outstanding; the loop is Idle (the only
\* place a line is read) only when none is; invocations and their outcomes
\* alternate.
C7_OneTurnAtATime ==
    /\ inflight <= 1
    /\ pc = "Idle" => inflight = 0
    /\ pc = "Thinking" => inflight = 1
    /\ \A i \in DOMAIN events :
          IF i % 2 = 1 THEN events[i] = "invoke"
          ELSE events[i] \in {"reply", "failed"}
    /\ Len(events) = 2 * Cardinality(invoked) - inflight

C7_Witness ==
    /\ pc = "Idle"
    /\ events = <<"invoke", "failed", "invoke", "reply">>
    /\ Len(reads) = 2

\* C8 as stated: an agent turn starts only for a line that is non-empty and
\* not 'quit' / 'exit'.
C8_AsStated ==
    \A i \in invoked : reads[i] # <<>> /\ ~IsQuitWord(reads[i])

\* C8, amended: an agent turn starts for exactly the lines that are not
\* 'quit' / 'exit' ignoring case; the empty line is one of them.
C8_TurnUnlessQuit ==
    \A i \in DOMAIN reads : (i \in invoked) <=> ~IsQuitWord(reads[i])

C8_Witness ==
    /\ pc = "Thinking"
    /\ reads = << <<>> >>
    /\ invoked = {1}
    /\ events = <<"invoke">>

====
